---- MODULE Spec2Model ----
(***************************************************************************)
(* State-machine model of the MAX78000 SPI platform driver                 *)
(* (drivers/platform/maxim/max78000/maxim_spi.c): max_spi_init,            *)
(* max_spi_remove, max_spi_transfer, max_spi_write_and_read and the two    *)
(* static helpers _max_spi_config and _max_delay_config.                   *)
(*                                                                         *)
(* The vendor HAL is the environment: each HAL call that can              *)
(* fail takes its outcome from a small set of inputs.                      *)
(***************************************************************************)
EXTENDS Integers, Sequences, FiniteSets, TLC

(***************************************************************************)
(* Bounds of the model.                                                    *)
(***************************************************************************)
\* Largest number of messages in one transfer call.
MaxLen == 3
\* Number of driver API calls made in one behaviour of Spec.
MaxCalls == 2
\* Number of driver API calls made in one behaviour of SpecBus.
MaxBusCalls == 4

(***************************************************************************)
(* Program constants.                                                      *)
(***************************************************************************)
MAX_DELAY_SCLK == 255
NS_PER_US == 1000
NANO == 1000000000
\* uint32_t values are kept as two 16-bit halves: half the width of uint32_t
Half == 65536
\* width of the PRE and POST fields of the sstime register
FieldMod == 256

\* number of SPI instances of the target
MXC_SPI_INSTANCES == 2

\* errno values returned (negated) by the driver
EINVAL == 22
EBUSY == 16
ENOMEM == 12

\* HAL result codes (mxc_errors.h)
E_NO_ERROR == 0
E_BAD_PARAM == -3
E_BAD_STATE == -7
E_COMM_ERR == -9

\* no_os_spi_mode values; InvalidMode stands for any value outside the enum
NO_OS_SPI_MODE_0 == 0
NO_OS_SPI_MODE_1 == 1
NO_OS_SPI_MODE_2 == 2
NO_OS_SPI_MODE_3 == 3
InvalidMode == 4
\* mxc_spi_mode_t values
SPI_MODE_1 == 1
SPI_MODE_2 == 2
NoHwMode == -1

(***************************************************************************)
(* Input sets.                                                             *)
(***************************************************************************)
\* descriptor slots of the caller (the places a struct no_os_spi_desc * is kept)
Handles == {"hA", "hB"}
NullHandle == "null"
Buses == 0 .. (MXC_SPI_INSTANCES - 1)
\* device_id values passed to init: every instance and one past the last
ChipSelects == {0, 1}
\* struct no_os_spi_init_param values passed to init: both chip selects on
\* both instances, every mode of the enum, a mode outside the enum and a
\* device_id one past the last instance
InitParams ==
  { [device_id |-> 0, chip_select |-> 0, mode |-> NO_OS_SPI_MODE_0],
    [device_id |-> 0, chip_select |-> 1, mode |-> NO_OS_SPI_MODE_1],
    [device_id |-> 1, chip_select |-> 0, mode |-> NO_OS_SPI_MODE_2],
    [device_id |-> 1, chip_select |-> 1, mode |-> NO_OS_SPI_MODE_3],
    [device_id |-> 0, chip_select |-> 1, mode |-> InvalidMode],
    [device_id |-> MXC_SPI_INSTANCES, chip_select |-> 0,
     mode |-> NO_OS_SPI_MODE_0] }
\* peripheral clock rates (Hz) MXC_SPI_GetPeripheralClock may report:
\* 60 MHz (17 ns after rounding) and 32768 Hz (30518 ns)
ClockRates == {60000000, 32768}
\* requested chip-select delays
Delays == {0, 1, 6}
\* results of MXC_SPI_MasterTransaction
HwRets == {E_NO_ERROR, E_BAD_PARAM, E_BAD_STATE, E_COMM_ERR}
\* the HAL call of _max_spi_config that rejects its parameter, if any
CfgFails == {"none", "init", "mode", "width", "size"}
\* outcome of the two no_os_calloc calls of max_spi_init
AllocFails == {"none", "descriptor", "st"}

\* struct no_os_spi_msg
Msg(s, first, last) ==
  [tx_buff |-> s.tx_buff, rx_buff |-> s.rx_buff,
   bytes_number |-> s.bytes_number, cs_change |-> s.cs_change,
   cs_change_delay |-> s.cs_change_delay,
   cs_delay_first |-> first, cs_delay_last |-> last]

\* buffers, byte count, chip-select flag and pacing delay of a message
FullDuplex == [tx_buff |-> TRUE, rx_buff |-> TRUE, bytes_number |-> 2,
               cs_change |-> 1, cs_change_delay |-> 0]
WriteOnly == [tx_buff |-> TRUE, rx_buff |-> FALSE, bytes_number |-> 1,
              cs_change |-> 0, cs_change_delay |-> 3]

\* messages a caller puts in msgs[]: full-duplex messages with the pairs of
\* delays that differ in what _max_delay_config does with them, and a
\* write-only message
MsgSet ==
  { Msg(FullDuplex, f, l) : f \in Delays \ {6}, l \in Delays }
  \cup { Msg(FullDuplex, 6, 1), Msg(WriteOnly, 1, 1) }

NoMsg == Msg([tx_buff |-> FALSE, rx_buff |-> FALSE, bytes_number |-> 0,
              cs_change |-> 0, cs_change_delay |-> 0], 0, 0)

\* variant of Xfer without .cs_change = 1 (line 353)
Xfer_KeepSelected(bytes_number) ==
  [tx_buff |-> TRUE, rx_buff |-> TRUE, bytes_number |-> bytes_number,
   cs_change |-> 0, cs_change_delay |-> 0,
   cs_delay_first |-> 0, cs_delay_last |-> 0]

\* the message max_spi_write_and_read builds
Xfer(bytes_number) ==
  [tx_buff |-> TRUE, rx_buff |-> TRUE, bytes_number |-> bytes_number,
   cs_change |-> 1, cs_change_delay |-> 0,
   cs_delay_first |-> 0, cs_delay_last |-> 0]

(***************************************************************************)
(* State.                                                                  *)
(***************************************************************************)
VARIABLES
  clk_rate,       \* what MXC_SPI_GetPeripheralClock reports
  desc,           \* per slot: the descriptor and its max_spi_state
  last_slave_id,  \* static table of max_spi_transfer, one entry per instance
  sstime,         \* per instance: PRE and POST fields of the sstime register
  periph,         \* per instance: what the HAL has configured
  allocs,         \* live no_os_calloc allocations
  pc,             \* position inside max_spi_transfer, "idle" between calls
  op,             \* the API call running or last run
  cur,            \* slot of the descriptor passed to the call
  len,            \* len argument of max_spi_transfer
  i,              \* loop index of max_spi_transfer (1-based)
  msg,            \* msgs[i]
  req,            \* mxc_spi_req_t handed to MXC_SPI_MasterTransaction
  ret,            \* return value of the last call
  cfg,            \* the _max_spi_config run of the call, if any
  dstat,          \* outcome of the _max_delay_config run for msgs[i]
  log,            \* the steps of the call's loop, in order
  hw,             \* result of MXC_SPI_MasterTransaction for msgs[i]
  ranged,         \* some _max_delay_config run of the call was out of range
  shutdowns,      \* MXC_SPI_Shutdown calls made by the call
  xfers,          \* per instance: the transfer calls made on it so far
  calls           \* API calls made so far

vars == <<clk_rate, desc, last_slave_id, sstime, periph, allocs, pc, op, cur,
          len, i, msg, req, ret, cfg, dstat, log, hw, ranged, shutdowns,
          xfers, calls>>

NullDesc == [alive |-> FALSE, device_id |-> 0, chip_select |-> 0, mode |-> 0,
             cs_delay_first |-> 0, cs_delay_last |-> 0]

NoReq == [ssIdx |-> 0, txLen |-> 0, rxLen |-> 0, ssDeassert |-> 0, bus |-> 0]
NoCfg == [done |-> FALSE, bus |-> 0, cs |-> 0, ret |-> 0, shut |-> 0,
          pmode |-> 0, hmode |-> NoHwMode]
ResetSstime == [pre |-> 1, post |-> 1]


(***************************************************************************)
(* Tick conversion and the delay register (_max_delay_config).             *)
(***************************************************************************)
\* NO_OS_DIV_ROUND_CLOSEST for unsigned operands
NO_OS_DIV_ROUND_CLOSEST(x, y) == (x + (y \div 2)) \div y

\* ticks_ns = NO_OS_DIV_ROUND_CLOSEST(NANO, clk_rate)
TicksNs(rate) == NO_OS_DIV_ROUND_CLOSEST(NANO, rate)

\* d * NS_PER_US / ticks_ns in uint32_t arithmetic: the product wraps
\* modulo 2^32 (hi * Half + lo is the wrapped product), then the division
\* truncates
DelayToTicks(d, tns) ==
  LET p0 == (d % Half) * NS_PER_US
      p1 == (d \div Half) * NS_PER_US + (p0 \div Half)
      lo == p0 % Half
      hi == p1 % Half
  IN (hi \div tns) * Half + (((hi % tns) * Half + lo) \div tns)

\* ticks_delay of the cs_delay_first branch
FirstTicks(m, tns) ==
  IF m.cs_delay_first = 0 THEN 1 ELSE DelayToTicks(m.cs_delay_first, tns)

\* ticks_delay of the cs_delay_last branch: the zero test reads cs_delay_first
LastTicks(m, tns) ==
  IF m.cs_delay_first = 0 THEN 1 ELSE DelayToTicks(m.cs_delay_last, tns)

\* no_os_field_prep into an 8-bit field
FieldPrep(ticks) == ticks % FieldMod

\* variant without the write-back of line 135: the fields already written stay
RestoreSstime_KeepWritten(sstime_cache, written) == written

\* line 135: the error path writes the snapshot back to the register
RestoreSstime(sstime_cache, written) == sstime_cache

\* variant of DelaysCached: the early return of line 85 is never taken
DelaysCached_Never(d, m) == FALSE

\* lines 83-84: both requested delays are the cached ones
DelaysCached(d, m) ==
  m.cs_delay_first = d.cs_delay_first /\ m.cs_delay_last = d.cs_delay_last

\* d: the descriptor (with the cached delays), m: the message,
\* reg: the sstime register, tns: ticks_ns
_max_delay_config(d, m, reg, tns) ==
  IF DelaysCached(d, m)
  THEN [sstime |-> reg, first |-> d.cs_delay_first, last |-> d.cs_delay_last,
        status |-> "unchanged"]
  ELSE
    LET sstime_cache == reg
        doFirst == m.cs_delay_first # d.cs_delay_first
        t1 == FirstTicks(m, tns)
        failFirst == doFirst /\ t1 > MAX_DELAY_SCLK
        reg1 == IF doFirst /\ ~failFirst
                THEN [reg EXCEPT !.pre = FieldPrep(t1)] ELSE reg
        doLast == ~failFirst /\ m.cs_delay_last # d.cs_delay_last
        t2 == LastTicks(m, tns)
        failLast == doLast /\ t2 > MAX_DELAY_SCLK
        reg2 == IF doLast /\ ~failLast
                THEN [reg1 EXCEPT !.post = FieldPrep(t2)] ELSE reg1
    IN IF failFirst \/ failLast
       THEN [sstime |-> RestoreSstime(sstime_cache, reg2),
             first |-> d.cs_delay_first, last |-> d.cs_delay_last,
             status |-> "out_of_range"]
       ELSE [sstime |-> reg2,
             first |-> m.cs_delay_first, last |-> m.cs_delay_last,
             status |-> "applied"]

(***************************************************************************)
(* Bus configuration (_max_spi_config).                                    *)
(***************************************************************************)
\* variant of HwMode without the exchange of modes 1 and 2
HwMode_NoSwap(mode) ==
  IF mode \in {NO_OS_SPI_MODE_0, NO_OS_SPI_MODE_1, NO_OS_SPI_MODE_2,
               NO_OS_SPI_MODE_3}
  THEN mode ELSE NoHwMode

\* the switch on desc->mode: modes 1 and 2 are exchanged
HwMode(mode) ==
  CASE mode = NO_OS_SPI_MODE_1 -> SPI_MODE_2
    [] mode = NO_OS_SPI_MODE_2 -> SPI_MODE_1
    [] mode \in {NO_OS_SPI_MODE_0, NO_OS_SPI_MODE_3} -> mode
    [] OTHER -> NoHwMode

\* MXC_SPI_Shutdown: the peripheral is reset and disabled
PeriphOff == [on |-> FALSE, ss |-> 0, mode |-> 0]
Shutdown(p) == PeriphOff

\* d: the descriptor, p: the peripheral, fail: the HAL call that fails.
\* Result: the return value, the peripheral, the number of shutdowns and
\* the mode handed to MXC_SPI_SetMode (NoHwMode: the call was not made).
_max_spi_config(d, p, fail) ==
  IF fail = "init"
  THEN [ret |-> -EINVAL, periph |-> Shutdown(p), shut |-> 1, mode |-> NoHwMode]
  ELSE
    LET p1 == [p EXCEPT !.on = TRUE, !.ss = d.chip_select]
        mode == HwMode(d.mode)
        p2 == [p1 EXCEPT !.mode = mode]
    IN IF mode = NoHwMode
       THEN [ret |-> -EINVAL, periph |-> p1, shut |-> 0, mode |-> NoHwMode]
       ELSE IF fail = "mode"
       THEN [ret |-> -EINVAL, periph |-> Shutdown(p1), shut |-> 1, mode |-> mode]
       ELSE IF fail \in {"width", "size"}
       THEN [ret |-> -EINVAL, periph |-> Shutdown(p2), shut |-> 1, mode |-> mode]
       ELSE [ret |-> 0, periph |-> p2, shut |-> 0, mode |-> mode]

(***************************************************************************)
(* Initial state: process start, nothing initialised.                      *)
(***************************************************************************)
Init ==
  /\ clk_rate \in ClockRates
  /\ desc = [h \in Handles |-> NullDesc]
  /\ last_slave_id = [b \in Buses |-> 0]
  /\ sstime = [b \in Buses |-> ResetSstime]
  /\ periph = [b \in Buses |-> PeriphOff]
  /\ allocs = 0
  /\ pc = "idle"
  /\ op = "none"
  /\ cur = NullHandle
  /\ len = 0
  /\ i = 0
  /\ msg = NoMsg
  /\ req = NoReq
  /\ ret = 0
  /\ cfg = NoCfg
  /\ dstat = "none"
  /\ log = <<>>
  /\ hw = 0
  /\ ranged = FALSE
  /\ shutdowns = 0
  /\ xfers = [b \in Buses |-> <<>>]
  /\ calls = 0

\* variant of no_os_free that releases nothing
no_os_free_Leak(a) == a

\* no_os_free of one live allocation; a: the live allocations
no_os_free(a) == a - 1

\* variant of RemoveShutdown without the MXC_SPI_Shutdown call of line 279
RemoveShutdown_Skip(p) == p

\* line 279: max_spi_remove shuts the peripheral of the descriptor down
RemoveShutdown(p) == Shutdown(p)

\* a descriptor pointer a caller can pass: NULL or a descriptor init returned
\* and remove has not freed
Passable(h) == IF h = NullHandle THEN TRUE ELSE desc[h].alive

\* what every API call resets on entry
EnterCall(name, h) ==
  /\ pc = "idle"
  /\ calls' = calls + 1
  /\ op' = name
  /\ cur' = h
  /\ req' = NoReq
  /\ dstat' = "none"
  /\ log' = <<>>
  /\ hw' = 0
  /\ ranged' = FALSE

(***************************************************************************)
(* max_spi_init                                                            *)
(***************************************************************************)
max_spi_init(h, paramOk, af, param, fail) ==
  /\ ~desc[h].alive
  /\ EnterCall("init", h)
  /\ pc' = "idle"
  /\ len' = 0 /\ i' = 0
  /\ msg' = NoMsg
  /\ UNCHANGED <<clk_rate, last_slave_id, sstime, xfers>>
  /\ IF ~paramOk
     THEN /\ ret' = -EINVAL
          /\ cfg' = NoCfg /\ shutdowns' = 0
          /\ UNCHANGED <<desc, periph, allocs>>
     ELSE IF af = "descriptor"
     THEN /\ ret' = -ENOMEM
          /\ cfg' = NoCfg /\ shutdowns' = 0
          /\ UNCHANGED <<desc, periph, allocs>>
     ELSE IF af = "st"
     THEN \* descriptor allocated, then freed at err
          /\ ret' = -ENOMEM
          /\ cfg' = NoCfg /\ shutdowns' = 0
          /\ allocs' = no_os_free(allocs + 1)
          /\ UNCHANGED <<desc, periph>>
     ELSE
       LET dev == param.device_id
           cs == param.chip_select
           descriptor == [alive |-> TRUE, device_id |-> dev,
                          chip_select |-> cs, mode |-> param.mode,
                          cs_delay_first |-> 0, cs_delay_last |-> 0]
       IN IF dev >= MXC_SPI_INSTANCES
          THEN /\ ret' = -EINVAL
               /\ cfg' = NoCfg /\ shutdowns' = 0
               /\ allocs' = no_os_free(no_os_free(allocs + 2))
               /\ UNCHANGED <<desc, periph>>
          ELSE
            LET r == _max_spi_config(descriptor, periph[dev], fail)
            IN /\ cfg' = [done |-> TRUE, bus |-> dev, cs |-> cs, ret |-> r.ret,
                           shut |-> r.shut, pmode |-> param.mode,
                           hmode |-> r.mode]
               /\ IF r.ret # 0
                  THEN \* err_init: second shutdown, then both frees
                       /\ ret' = r.ret
                       /\ periph' = [periph EXCEPT ![dev] = Shutdown(r.periph)]
                       /\ shutdowns' = r.shut + 1
                       /\ allocs' = no_os_free(no_os_free(allocs + 2))
                       /\ UNCHANGED desc
                  ELSE /\ ret' = 0
                       /\ periph' = [periph EXCEPT ![dev] = r.periph]
                       /\ shutdowns' = r.shut
                       /\ allocs' = allocs + 2
                       /\ desc' = [desc EXCEPT ![h] = descriptor]

(***************************************************************************)
(* max_spi_remove                                                          *)
(***************************************************************************)
max_spi_remove(h) ==
  /\ Passable(h)
  /\ EnterCall("remove", h)
  /\ pc' = "idle"
  /\ len' = 0 /\ i' = 0
  /\ msg' = NoMsg
  /\ cfg' = NoCfg
  /\ UNCHANGED <<clk_rate, last_slave_id, sstime, xfers>>
  /\ IF h = NullHandle
     THEN /\ ret' = -EINVAL
          /\ shutdowns' = 0
          /\ UNCHANGED <<desc, periph, allocs>>
     ELSE /\ ret' = 0
          /\ periph' = [periph EXCEPT
                          ![desc[h].device_id] =
                             RemoveShutdown(periph[desc[h].device_id])]
          /\ shutdowns' = 1
          /\ allocs' = no_os_free(no_os_free(allocs))
          /\ desc' = [desc EXCEPT ![h] = NullDesc]


(***************************************************************************)
(* max_spi_transfer and max_spi_write_and_read                             *)
(***************************************************************************)
\* variant of TxnErrno without the E_BAD_STATE test of line 329
TxnErrno_NoBusyTest(code) ==
  IF code = E_BAD_PARAM THEN -EINVAL ELSE 0

\* the mapping of the result of MXC_SPI_MasterTransaction to a return
\* value; 0 stands for "no return, go on with the loop"
TxnErrno(code) ==
  IF code = E_BAD_PARAM THEN -EINVAL
  ELSE IF code = E_BAD_STATE THEN -EBUSY
  ELSE 0

\* variant of ConfigAborts without the test of lines 308-309
ConfigAborts_Never(need, r) == FALSE

\* lines 308-309: a failed _max_spi_config ends max_spi_transfer
ConfigAborts(need, r) == need /\ r # 0

\* whether max_spi_transfer runs _max_spi_config for descriptor d
NeedsConfig(d, table) == d.chip_select # table[d.device_id]

\* max_spi_transfer up to the loop: argument checks and the lazy
\* reconfiguration. first: msgs[0] when the caller is max_spi_write_and_read.
TransferEntry(name, h, msgsOk, n, first, fail) ==
  /\ Passable(h)
  /\ EnterCall(name, h)
  /\ len' = n
  /\ UNCHANGED <<clk_rate, sstime, allocs, desc>>
  /\ IF (IF h = NullHandle THEN TRUE ELSE ~msgsOk)
     THEN /\ ret' = -EINVAL
          /\ pc' = "idle"
          /\ i' = 0
          /\ msg' = NoMsg
          /\ cfg' = NoCfg
          /\ shutdowns' = 0
          /\ UNCHANGED <<last_slave_id, periph, xfers>>
     ELSE
       LET d == desc[h]
           b == d.device_id
           slave_id == d.chip_select
           need == NeedsConfig(d, last_slave_id)
           r == _max_spi_config(d, periph[b], fail)
       IN /\ need \/ fail = "none"
          /\ xfers' = [xfers EXCEPT ![b] =
                         Append(@, [cs |-> slave_id, one |-> (n = 1),
                                    cfg |-> need])]
          /\ cfg' = IF need
                    THEN [done |-> TRUE, bus |-> b, cs |-> slave_id, ret |-> r.ret,
                          shut |-> r.shut, pmode |-> d.mode, hmode |-> r.mode]
                    ELSE NoCfg
          /\ periph' = IF need THEN [periph EXCEPT ![b] = r.periph] ELSE periph
          /\ shutdowns' = IF need THEN r.shut ELSE 0
          /\ IF ConfigAborts(need, r.ret)
             THEN /\ ret' = r.ret
                  /\ pc' = "idle"
                  /\ i' = 0
                  /\ msg' = NoMsg
                  /\ UNCHANGED last_slave_id
             ELSE /\ last_slave_id' =
                       IF need THEN [last_slave_id EXCEPT ![b] = slave_id]
                       ELSE last_slave_id
                  /\ ret' = 0
                  /\ i' = 1
                  /\ msg' = first
                  /\ pc' = IF n = 0 THEN "idle" ELSE "delay"

max_spi_transfer(h, msgsOk, n, fail) ==
  TransferEntry("transfer", h, msgsOk, n, NoMsg, fail)

max_spi_write_and_read(h, bytes_number, fail) ==
  TransferEntry("write_and_read", h, TRUE, 1, Xfer(bytes_number), fail)

\* return from max_spi_transfer: msgs and req are out of reach
Return ==
  /\ msg' = NoMsg
  /\ req' = NoReq
  /\ dstat' = dstat

\* loop body up to and including _max_delay_config(desc, &msgs[i])
DelayStep(m) ==
  /\ pc = "delay"
  /\ op = "write_and_read" => m = msg
  /\ LET d == desc[cur]
         b == d.device_id
         r == _max_delay_config(d, m, sstime[b], TicksNs(clk_rate))
     IN /\ msg' = m
        /\ req' = [ssIdx |-> d.chip_select,
                   txLen |-> IF m.tx_buff THEN m.bytes_number ELSE 0,
                   rxLen |-> IF m.rx_buff THEN m.bytes_number ELSE 0,
                   ssDeassert |-> m.cs_change,
                   bus |-> b]
        /\ sstime' = [sstime EXCEPT ![b] = r.sstime]
        /\ desc' = [desc EXCEPT ![cur].cs_delay_first = r.first,
                                ![cur].cs_delay_last = r.last]
        /\ dstat' = r.status
        /\ ranged' = (ranged \/ r.status = "out_of_range")
  /\ log' = Append(log, [ev |-> "delay", idx |-> i])
  /\ hw' = E_NO_ERROR
  /\ pc' = "txn"
  /\ UNCHANGED <<clk_rate, last_slave_id, periph, allocs, op, cur, len, i,
                 ret, cfg, shutdowns, xfers, calls>>

\* MXC_SPI_MasterTransaction(&req) and the two tests of its result
TxnStep(code) ==
  /\ pc = "txn"
  /\ log' = Append(log, [ev |-> "txn", idx |-> i])
  /\ hw' = code
  /\ IF TxnErrno(code) # 0
     THEN /\ ret' = TxnErrno(code)
          /\ pc' = "idle"
          /\ Return
     ELSE /\ ret' = ret
          /\ pc' = "pace"
          /\ UNCHANGED <<msg, req, dstat>>
  /\ UNCHANGED <<clk_rate, desc, last_slave_id, sstime, periph, allocs, op,
                 cur, len, i, cfg, ranged, shutdowns, xfers, calls>>

\* variant of PaceStep without the no_os_udelay call of line 332
PaceStep_NoDelay ==
  /\ pc = "pace"
  /\ log' = log
  /\ IF i < len
     THEN /\ i' = i + 1
          /\ pc' = "delay"
          /\ ret' = ret
          /\ UNCHANGED <<msg, req, dstat>>
     ELSE /\ i' = i
          /\ pc' = "idle"
          /\ ret' = 0
          /\ Return
  /\ UNCHANGED <<clk_rate, desc, last_slave_id, sstime, periph, allocs, op,
                 cur, len, cfg, hw, ranged, shutdowns, xfers, calls>>

\* no_os_udelay(msgs[i].cs_change_delay), i++ and the loop test
PaceStep ==
  /\ pc = "pace"
  /\ log' = Append(log, [ev |-> "pace", idx |-> i, us |-> msg.cs_change_delay])
  /\ IF i < len
     THEN /\ i' = i + 1
          /\ pc' = "delay"
          /\ ret' = ret
          /\ UNCHANGED <<msg, req, dstat>>
     ELSE /\ i' = i
          /\ pc' = "idle"
          /\ ret' = 0
          /\ Return
  /\ UNCHANGED <<clk_rate, desc, last_slave_id, sstime, periph, allocs, op,
                 cur, len, cfg, hw, ranged, shutdowns, xfers, calls>>

(***************************************************************************)
(* The caller: any API call with any input, one call at a time.            *)
(***************************************************************************)
\* inputs a call does not read are fixed, and init fills the first free slot
InitArgs ==
  { a \in [paramOk : BOOLEAN, af : AllocFails, param : InitParams,
           fail : CfgFails] :
      LET p0 == [device_id |-> 0, chip_select |-> 0, mode |-> NO_OS_SPI_MODE_0]
      IN /\ a.paramOk \/ a.af = "none"
         /\ (a.paramOk /\ a.af = "none") \/ a.param = p0
         /\ \/ a.fail = "none"
            \/ /\ a.paramOk /\ a.af = "none"
               /\ a.param.device_id < MXC_SPI_INSTANCES
               /\ a.param.mode # InvalidMode }

FreeSlot(h) ==
  /\ ~desc[h].alive
  /\ h = "hA" \/ desc["hA"].alive

\* Spec: every call with every input, MaxCalls calls in a behaviour
Next ==
  \/ \E h \in Handles, a \in InitArgs :
       /\ calls < MaxCalls
       /\ FreeSlot(h)
       /\ max_spi_init(h, a.paramOk, a.af, a.param, a.fail)
  \/ \E h \in Handles \cup {NullHandle} :
       /\ calls < MaxCalls
       /\ max_spi_remove(h)
  \/ \E h \in Handles \cup {NullHandle}, msgsOk \in BOOLEAN,
        n \in 0 .. MaxLen, fail \in CfgFails :
       /\ calls < MaxCalls
       /\ max_spi_transfer(h, msgsOk, n, fail)
  \/ \E h \in Handles \cup {NullHandle}, bytes_number \in {0, 2},
        fail \in CfgFails :
       /\ calls < MaxCalls
       /\ max_spi_write_and_read(h, bytes_number, fail)
  \/ \E m \in MsgSet \cup {Xfer(0), Xfer(2)} : DelayStep(m)
  \/ \E code \in HwRets : TxnStep(code)
  \/ PaceStep

Spec == Init /\ [][Next]_vars

(***************************************************************************)
(* SpecBus: longer sequences of calls on descriptors that share the two    *)
(* instances, with plain messages and a HAL whose transactions succeed.    *)
(***************************************************************************)
BusInitArgs ==
  { a \in InitArgs : a.paramOk /\ a.af = "none"
                     /\ a.param.device_id < MXC_SPI_INSTANCES
                     /\ a.param.mode # InvalidMode
                     /\ a.fail \in {"none", "init"} }

NextBus ==
  \/ \E h \in Handles, a \in BusInitArgs :
       /\ calls < MaxBusCalls
       /\ FreeSlot(h)
       /\ max_spi_init(h, a.paramOk, a.af, a.param, a.fail)
  \/ \E h \in Handles :
       /\ calls < MaxBusCalls
       /\ max_spi_remove(h)
  \/ \E h \in Handles, n \in 1 .. 2, fail \in {"none", "init"} :
       /\ calls < MaxBusCalls
       /\ max_spi_transfer(h, TRUE, n, fail)
  \/ DelayStep(Msg(FullDuplex, 0, 0))
  \/ TxnStep(E_NO_ERROR)
  \/ PaceStep

InitBus == Init /\ clk_rate = 60000000

SpecBus == InitBus /\ [][NextBus]_vars

(***************************************************************************)
(* Properties.                                                             *)
(***************************************************************************)
IsTransfer == op \in {"transfer", "write_and_read"}

\* the call has returned
Returned == pc = "idle"

\* message indices of the transactions issued by the call, in order
TxnIdx ==
  LET t == SelectSeq(log, LAMBDA e : e.ev = "txn")
  IN [k \in 1 .. Len(t) |-> t[k].idx]

UpTo(n) == [k \in 1 .. n |-> k]

\* the step is the _max_delay_config run for msgs[i]
IsDelayStep == pc = "delay" /\ pc' = "txn"

\* instance of the descriptor of the running call
CurBus == desc[cur].device_id

\* C1: a transaction result other than E_NO_ERROR, the invalid-parameter
\* code and the bad-state code makes the call return a failure with no later
\* message executed; the invalid-parameter code yields -EINVAL and the
\* bad-state code -EBUSY.
C1_OtherCodeFails ==
  /\ hw = E_BAD_PARAM => (Returned /\ ret = -EINVAL)
  /\ hw = E_BAD_STATE => (Returned /\ ret = -EBUSY)
  /\ hw \notin {E_NO_ERROR, E_BAD_PARAM, E_BAD_STATE} => (Returned /\ ret # 0)

\* C2: the transactions of a call are issued once per message, in message
\* order; when the transaction of message k reports the bad state the call
\* returns -EBUSY with transactions issued for messages 1..k only; a call
\* that returns 0 has issued one transaction for each of its len messages.
C2_BusyStopsSequence ==
  IsTransfer =>
    /\ \E k \in 0 .. len : TxnIdx = UpTo(k)
    /\ hw = E_BAD_STATE =>
         (Returned /\ ret = -EBUSY /\ i <= len /\ TxnIdx = UpTo(i))
    /\ (Returned /\ ret = 0) => TxnIdx = UpTo(len)

\* C2 witness: message 2 of 3 reported the bad state and the call returned.
C2_Witness ==
  /\ op = "transfer" /\ Returned
  /\ hw = E_BAD_STATE /\ i = 2 /\ len = 3
  /\ TxnIdx = UpTo(2)


\* number of transfers of seq that ran _max_spi_config
CfgCount(seq) == Cardinality({k \in 1 .. Len(seq) : seq[k].cfg})

\* every transfer of seq addressed the same chip select
SameCs(seq) == \A j, k \in 1 .. Len(seq) : seq[j].cs = seq[k].cs

\* single-message transfers, each on another chip select than the one before
Alternating(seq) ==
  /\ Len(seq) >= 2
  /\ \A k \in 1 .. Len(seq) : seq[k].one
  /\ \A k \in 2 .. Len(seq) : seq[k].cs # seq[k - 1].cs

\* C3: over transfers on one instance that all address one chip select the
\* bus configuration runs exactly once; over single-message transfers that
\* alternate between two chip selects it runs on every message.
C3_ConfigOncePerChange ==
  \A b \in Buses :
    /\ (Len(xfers[b]) >= 1 /\ SameCs(xfers[b])) => CfgCount(xfers[b]) = 1
    /\ Alternating(xfers[b]) => \A k \in 1 .. Len(xfers[b]) : xfers[b][k].cfg

\* the step is the entry of an API call
IsCallStep == calls' = calls + 1

\* C4: a successful bus configuration, by init or by transfer, leaves the
\* table entry of the instance equal to the chip select configured; a failed
\* one leaves the table as it was.
C4_TableFollowsConfig ==
  [][ (IsCallStep /\ cfg'.done) =>
        IF cfg'.ret = 0
        THEN last_slave_id'[cfg'.bus] = cfg'.cs
        ELSE last_slave_id' = last_slave_id ]_vars

\* the delay fields _max_delay_config recomputes in this step
FirstRecomputed == msg'.cs_delay_first # desc[cur].cs_delay_first
LastRecomputed == msg'.cs_delay_last # desc[cur].cs_delay_last

\* C5: a recomputed delay field whose requested value is 0 gets the minimum
\* tick 1 in the register, the last field whatever the first field is.
C5_ZeroIsMinimumTick ==
  [][ (IsDelayStep /\ dstat' = "applied") =>
        /\ (FirstRecomputed /\ msg'.cs_delay_first = 0)
             => sstime'[CurBus].pre = 1
        /\ (LastRecomputed /\ msg'.cs_delay_last = 0)
             => sstime'[CurBus].post = 1 ]_vars

\* tick count of a requested delay at the current clock rate
TickCount(d) ==
  IF d = 0 THEN 1 ELSE DelayToTicks(d, TicksNs(clk_rate))

\* C6: a requested first or last delay whose tick count exceeds
\* MAX_DELAY_SCLK makes the delay application fail, with the register and
\* the cached delays as they were before.
C6_OutOfRangeRollsBack ==
  [][ (IsDelayStep /\ (\/ TickCount(msg'.cs_delay_first) > MAX_DELAY_SCLK
                       \/ TickCount(msg'.cs_delay_last) > MAX_DELAY_SCLK)) =>
        /\ dstat' = "out_of_range"
        /\ sstime' = sstime
        /\ desc' = desc ]_vars

\* C7: the tick count of a non-zero delay is the delay times NS_PER_US
\* divided by the clock period, rounded to the nearest integer.
C7_RoundedToNearest ==
  [][ (IsDelayStep /\ dstat' = "applied") =>
        /\ (FirstRecomputed /\ msg'.cs_delay_first # 0) =>
             sstime'[CurBus].pre =
               NO_OS_DIV_ROUND_CLOSEST(msg'.cs_delay_first * NS_PER_US,
                                       TicksNs(clk_rate))
        /\ (LastRecomputed /\ msg'.cs_delay_last # 0) =>
             sstime'[CurBus].post =
               NO_OS_DIV_ROUND_CLOSEST(msg'.cs_delay_last * NS_PER_US,
                                       TicksNs(clk_rate)) ]_vars

\* C8: at a fixed clock rate the tick count is monotonic non-decreasing in
\* the delay: the ticks written for a first delay d2 are at least the ticks
\* computed for every d1 <= d2, d1 = 0 (one tick) included.
C8_Monotonic ==
  [][ (IsDelayStep /\ dstat' = "applied" /\ FirstRecomputed) =>
        \A d1 \in 0 .. msg'.cs_delay_first :
          FirstTicks(Msg(FullDuplex, d1, 0), TicksNs(clk_rate))
            <= sstime'[CurBus].pre ]_vars

\* C9: after a successful transfer that applied a delay the register fields
\* are the tick counts of the cached delays.
C9_CacheMatchesRegister ==
  (IsTransfer /\ Returned /\ ret = 0 /\ dstat = "applied") =>
    /\ sstime[CurBus].pre = TickCount(desc[cur].cs_delay_first)
    /\ sstime[CurBus].post = TickCount(desc[cur].cs_delay_last)

\* C10: a delay out of range does not abort the transfer: the register keeps
\* the value it had, the transaction of the message is issued, and the call
\* fails only if a transaction reports the bad parameter or the bad state,
\* having otherwise issued the transactions of all its messages.
C10_RangeFailureContinues ==
  /\ [][ (IsDelayStep /\ dstat' = "out_of_range") =>
           (sstime' = sstime /\ pc' = "txn" /\ ret' = ret) ]_vars
  /\ [][ (pc = "txn" /\ dstat = "out_of_range") =>
           (sstime' = sstime /\ TxnIdx' = Append(TxnIdx, i)) ]_vars
  /\ [](  (IsTransfer /\ ranged /\ Returned) =>
            /\ ret # 0 => hw \in {E_BAD_PARAM, E_BAD_STATE}
            /\ ret = 0 => TxnIdx = UpTo(len) )

\* C10 witness: a call of two or more messages returned 0 although the
\* delay of one of them was out of range.
C10_Witness ==
  /\ op = "transfer" /\ Returned /\ ret = 0
  /\ ranged /\ len >= 2 /\ TxnIdx = UpTo(len)


\* C11: a failing _max_spi_config returns -EINVAL and has shut the
\* peripheral down itself before it returns, whatever sub-step rejected its
\* parameter and whichever function called it.
C11_FailedConfigShutsDown ==
  (cfg.done /\ cfg.ret # 0) => (cfg.ret = -EINVAL /\ cfg.shut >= 1)

\* C12: a _max_spi_config failure in a transfer call ends the call at once
\* with the configuration's error: no delay is applied, no transaction is
\* issued, register, cache and table stay as they were, and the
\* configuration has run once.
C12_ConfigFailureAborts ==
  /\ []( (IsTransfer /\ cfg.done /\ cfg.ret # 0) =>
           (Returned /\ ret = cfg.ret /\ log = <<>> /\ dstat = "none"
            /\ Len(xfers[cfg.bus]) >= 1
            /\ xfers[cfg.bus][Len(xfers[cfg.bus])].cfg) )
  /\ [][ (IsCallStep /\ op' \in {"transfer", "write_and_read"}
          /\ cfg'.done /\ cfg'.ret # 0) =>
           (sstime' = sstime /\ desc' = desc
            /\ last_slave_id' = last_slave_id
            /\ Len(xfers'[cfg'.bus]) = Len(xfers[cfg'.bus]) + 1) ]_vars

\* C12 witness: a transfer of several messages ended by a configuration
\* failure.
C12_Witness ==
  /\ op = "transfer" /\ Returned /\ len >= 2
  /\ cfg.done /\ cfg.ret = -EINVAL /\ ret = -EINVAL /\ log = <<>>


\* C13: max_spi_write_and_read(desc, data, N) behaves as max_spi_transfer on
\* the one message with both buffers data, N bytes, chip select deasserted
\* after it and all delays 0: its entry step is the entry step of such a
\* transfer of length 1 and its delay step is the transfer's delay step on
\* that message, so return value, request, table, cache and register agree.
C13_WriteAndReadIsTransfer ==
  [][ LET m(N) == [tx_buff |-> TRUE, rx_buff |-> TRUE, bytes_number |-> N,
                   cs_change |-> 1, cs_change_delay |-> 0,
                   cs_delay_first |-> 0, cs_delay_last |-> 0]
      IN /\ (IsCallStep /\ op' = "write_and_read") =>
              \E N \in {0, 2}, fail \in CfgFails :
                TransferEntry(op', cur', TRUE, 1, m(N), fail)
         /\ (IsDelayStep /\ op = "write_and_read") =>
              \E N \in {0, 2} :
                /\ DelayStep(m(N))
                /\ req' = [ssIdx |-> desc[cur].chip_select, txLen |-> N,
                           rxLen |-> N, ssDeassert |-> 1, bus |-> CurBus] ]_vars

\* C13 witness: a write-and-read call that configured the bus, issued its
\* one transaction and returned 0.
C13_Witness ==
  /\ op = "write_and_read" /\ Returned /\ ret = 0
  /\ cfg.done /\ len = 1 /\ TxnIdx = UpTo(1)


\* C14: max_spi_remove(NULL) returns -EINVAL, calls no MXC_SPI_Shutdown and
\* frees nothing; max_spi_remove of a descriptor shuts its peripheral down,
\* frees the descriptor and its state and returns 0.
C14_RemoveNullOrRelease ==
  [][ (IsCallStep /\ op' = "remove") =>
        IF cur' = NullHandle
        THEN /\ ret' = -EINVAL /\ shutdowns' = 0
             /\ allocs' = allocs /\ periph' = periph /\ desc' = desc
        ELSE /\ ret' = 0 /\ shutdowns' = 1
             /\ ~periph'[desc[cur'].device_id].on
             /\ allocs' = allocs - 2
             /\ desc[cur'].alive /\ ~desc'[cur'].alive ]_vars

\* C14 witness: max_spi_remove(NULL) while a descriptor is live and its
\* peripheral enabled.
C14_Witness ==
  /\ op = "remove" /\ cur = NullHandle /\ ret = -EINVAL
  /\ allocs = 2 /\ \E b \in Buses : periph[b].on

\* number of descriptors max_spi_init returned and max_spi_remove has not freed
LiveHandles == Cardinality({h \in Handles : desc[h].alive})

\* C15: the live allocations are two per live descriptor after every init
\* and remove; a failing max_spi_init has freed what it allocated and
\* published no descriptor.
C15_AllocationsBalanced ==
  /\ allocs = 2 * LiveHandles
  /\ (op = "init" /\ ret # 0) => ~desc[cur].alive
  /\ (op = "init" /\ ret = 0) => desc[cur].alive

\* C15 witness: a max_spi_init that failed in _max_spi_config while another
\* descriptor is live.
C15_Witness ==
  /\ op = "init" /\ cfg.done /\ cfg.ret # 0 /\ ret = cfg.ret
  /\ LiveHandles = 1 /\ allocs = 2


\* C16: when both requested delays of a message equal the cached delays,
\* _max_delay_config returns before it reads or writes the register and
\* leaves the cache alone; so the message that was just applied, applied
\* again, changes neither register nor cache.
C16_CachedDelaysAreSkipped ==
  [][ IsDelayStep =>
        /\ (~FirstRecomputed /\ ~LastRecomputed) =>
             (dstat' = "unchanged" /\ sstime' = sstime /\ desc' = desc)
        /\ (dstat = "applied" /\ msg' = msg) =>
             (dstat' = "unchanged" /\ sstime' = sstime /\ desc' = desc) ]_vars

\* C16 witness: the second of two equal messages with non-zero delays was
\* skipped after the first was applied.
C16_Witness ==
  /\ op = "transfer" /\ pc = "txn" /\ i = 2 /\ dstat = "unchanged"
  /\ msg.cs_delay_first = 1 /\ msg.cs_delay_last = 1
  /\ desc[cur].cs_delay_first = 1 /\ desc[cur].cs_delay_last = 1
  /\ sstime[CurBus].pre # 1


\* the step order of one message
StepOf(k) ==
  CASE k % 3 = 1 -> "delay"
    [] k % 3 = 2 -> "txn"
    [] OTHER -> "pace"

\* C17: the steps of a transfer call are, message after message, the delay
\* adjustment, the transaction and the pacing delay: the delay adjustment of
\* message i + 1 comes right after the pacing delay of message i, which waits
\* for that message's cs_change_delay, and a transaction that ends the call
\* is followed by no pacing delay.
C17_StepOrder ==
  /\ [](  /\ \A k \in 1 .. Len(log) :
               log[k].ev = StepOf(k) /\ log[k].idx = ((k - 1) \div 3) + 1
          /\ pc = "delay" => Len(log) = 3 * (i - 1)
          /\ pc = "txn" => Len(log) = 3 * (i - 1) + 1
          /\ pc = "pace" => Len(log) = 3 * (i - 1) + 2
          /\ (IsTransfer /\ Returned /\ ret # 0 /\ log # <<>>) =>
               (log[Len(log)].ev = "txn" /\ hw \in {E_BAD_PARAM, E_BAD_STATE})
          /\ (IsTransfer /\ Returned /\ ret = 0) => Len(log) = 3 * len )
  /\ [][ (pc = "pace") =>
           /\ log' = Append(log, [ev |-> "pace", idx |-> i,
                                   us |-> msg.cs_change_delay])
           /\ log[Len(log)] = [ev |-> "txn", idx |-> i]
           /\ req.txLen = (IF msg.tx_buff THEN msg.bytes_number ELSE 0)
           /\ req.ssDeassert = msg.cs_change
           /\ hw \notin {E_BAD_PARAM, E_BAD_STATE} ]_vars

\* C17 witness: the second message of a call is at its transaction after the
\* pacing delay of a first message that asked for one.
C17_Witness ==
  /\ op = "transfer" /\ pc = "txn" /\ i = 2 /\ Len(log) = 4
  /\ log[3] = [ev |-> "pace", idx |-> 1, us |-> WriteOnly.cs_change_delay]


\* C18: _max_spi_config hands MXC_SPI_SetMode hardware mode 0 for portable
\* mode 0, 2 for 1, 1 for 2 and 3 for 3, and that is the mode of the
\* peripheral after a successful configuration; for any other mode it
\* returns -EINVAL without calling MXC_SPI_SetMode.
C18_ModeSwap ==
  cfg.done =>
    LET swapped == CASE cfg.pmode = 0 -> 0
                     [] cfg.pmode = 1 -> 2
                     [] cfg.pmode = 2 -> 1
                     [] cfg.pmode = 3 -> 3
                     [] OTHER -> NoHwMode
    IN IF cfg.pmode \in 0 .. 3
       THEN /\ cfg.hmode \in {swapped, NoHwMode}
            /\ cfg.ret = 0 =>
                 (cfg.hmode = swapped /\ periph[cfg.bus].mode = swapped)
       ELSE cfg.ret = -EINVAL /\ cfg.hmode = NoHwMode

\* C18 witness: a successful configuration for portable mode 1 left the
\* peripheral in hardware mode 2.
C18_Witness ==
  /\ cfg.done /\ cfg.ret = 0 /\ cfg.pmode = NO_OS_SPI_MODE_1
  /\ cfg.hmode = SPI_MODE_2 /\ periph[cfg.bus].mode = SPI_MODE_2

\* C19: a transaction of a transfer is issued only while the peripheral of
\* its instance is enabled and configured for the chip select of the
\* descriptor, that is while the last _max_spi_config on the instance
\* succeeded and was for this chip select, with no shutdown since.
C19_TransactionOnConfiguredBus ==
  (IsTransfer /\ pc = "txn") =>
    (periph[CurBus].on /\ periph[CurBus].ss = desc[cur].chip_select)

\* C20: every value _max_delay_config writes to the PRE or POST field of
\* the register lies in 1 .. MAX_DELAY_SCLK; the raw 0 is never written.
C20_WrittenTicksInRange ==
  [][ (IsDelayStep /\ dstat' = "applied") =>
        /\ FirstRecomputed => sstime'[CurBus].pre \in 1 .. MAX_DELAY_SCLK
        /\ LastRecomputed => sstime'[CurBus].post \in 1 .. MAX_DELAY_SCLK ]_vars

====
